---- MODULE Spec2Model ----
(***************************************************************************)
(* Authentication, ownership-based authorization and password-reset tokens *)
(* of the fastapi-be backend: app/crud.py, app/api/routes/items.py,        *)
(* app/core/security.py and app/utils.py.                                  *)
(*                                                                         *)
(* Optional values (User | None, str | None) are sequences of length at    *)
(* most one: None is << >> and a present value x is << x >>.               *)
(***************************************************************************)
EXTENDS Integers, Sequences, FiniteSets, TLC

\* ------------------------------------------------------------------ bounds
MaxUsers == 2
MaxItems == 2
MaxClock == 5
\* settings.EMAIL_RESET_TOKEN_EXPIRE_HOURS is configuration; any value > 0.
EMAIL_RESET_TOKEN_EXPIRE_HOURS == 2

Emails == {"a@example.com", "b@example.com"}
Passwords == {"Secret123", "wrong"}
Salts == {"s1", "s2"}
Titles == {"t1", "t2"}
\* Local UTC offsets of the process, in hours east of UTC.
TzOffsets == {-1, 0, 1}

None == << >>
Some(x) == << x >>
\* An optional value of S: a request field that is set or not.
Opt(S) == {None} \cup {Some(x) : x \in S}

VARIABLES
    users,       \* the user table: sequence of rows, row i has id i
    plain,       \* history: plain[i] is the password user i last chose
    items,       \* the item table: set of rows
    nextItemId,  \* the item table's auto-increment counter
    clock,       \* the true instant, in hours since the epoch (UTC)
    tz,          \* the process's local UTC offset, in hours
    token,       \* the token last handed out or presented, None before
    issued,      \* history: the generate_password_reset_token call that
                 \* issued token, None if none did
    access,      \* history: the create_access_token call that issued
                 \* token, None if none did
    last         \* the last call: its name, arguments and outcome (a field
                 \* name holds values of one type in every kind of call)

vars ==
    << users, plain, items, nextItemId, clock, tz, token, issued, access,
       last >>

\* ------------------------------------------------------- app/core/security
\* pwd_context.hash: a salted one-way transform; the result is not the
\* plaintext and two calls on one plaintext give different results.
get_password_hash(password, salt) ==
    [scheme |-> "bcrypt", salt |-> salt, digest |-> password]

\* pwd_context.verify: recomputes the digest of plain_password with the salt
\* stored in hashed_password and compares.
verify_password(plain_password, hashed_password) ==
    get_password_hash(plain_password, hashed_password.salt) = hashed_password

\* ---------------------------------------------------------------- app/crud
\* The e-mail column of the user table is unique: a commit that would store
\* a second row with the same e-mail fails and is rolled back.
EmailTaken(us, email, except) ==
    \E i \in DOMAIN us : i # except /\ us[i].email = email

\* select(User).where(User.email == email) ... .first()
get_user_by_email(us, email) ==
    LET found == {i \in DOMAIN us : us[i].email = email}
    IN  IF found = {} THEN None
        ELSE Some(us[CHOOSE i \in found : \A j \in found : i <= j])

\* authenticate without its password check (lines 107-108 dropped).
authenticate_NoVerify(us, email, password) ==
    LET db_user == get_user_by_email(us, email)
    IN  [ret |-> db_user, verified |-> FALSE]

\* authenticate turning inactive users away.
authenticate_ActiveOnly(us, email, password) ==
    LET db_user == get_user_by_email(us, email)
    IN  IF db_user = None
        THEN [ret |-> None, verified |-> FALSE]
        ELSE IF ~verify_password(password, db_user[1].hashed_password)
             THEN [ret |-> None, verified |-> TRUE]
             ELSE IF ~db_user[1].is_active
                  THEN [ret |-> None, verified |-> TRUE]
                  ELSE [ret |-> db_user, verified |-> TRUE]

\* The value authenticate returns, and whether it ran verify_password.
authenticate(us, email, password) ==
    LET db_user == get_user_by_email(us, email)
    IN  IF db_user = None
        THEN [ret |-> None, verified |-> FALSE]
        ELSE IF ~verify_password(password, db_user[1].hashed_password)
             THEN [ret |-> None, verified |-> TRUE]
             ELSE [ret |-> db_user, verified |-> TRUE]

\* The defaults of the User columns a UserCreate request may leave unset.
UserDefaults == [is_active |-> TRUE, is_superuser |-> FALSE]

\* create_user storing the request's password where the hash belongs.
NewUser_Plaintext(id, email, password, is_superuser, salt) ==
    [id |-> id, email |-> email,
     hashed_password |->
         [scheme |-> "plaintext", salt |-> salt, digest |-> password],
     is_active |-> UserDefaults.is_active,
     is_superuser |-> IF is_superuser # None THEN is_superuser[1]
                      ELSE UserDefaults.is_superuser]

\* User.model_validate(user_create, update={"hashed_password": ...}): the
\* row create_user stores. is_superuser is None when the request does not
\* set it; is_active is not a field of the request and takes its default.
NewUser(id, email, password, is_superuser, salt) ==
    [id |-> id, email |-> email,
     hashed_password |-> get_password_hash(password, salt),
     is_active |-> UserDefaults.is_active,
     is_superuser |-> IF is_superuser # None THEN is_superuser[1]
                      ELSE UserDefaults.is_superuser]

\* create_user for a request with email, password, is_superuser (set or
\* not) and the unknown field disabled (set or not), which validation
\* drops.
CreateUserStep(email, password, is_superuser, disabled, salt) ==
    /\ Len(users) < MaxUsers
    /\ IF EmailTaken(users, email, 0)
       THEN /\ UNCHANGED << users, plain >>
            /\ last' = [op |-> "create_user", email |-> email,
                        password |-> password, result |-> "IntegrityError"]
       ELSE LET db_obj == NewUser(Len(users) + 1, email, password,
                                  is_superuser, salt)
            IN  /\ users' = Append(users, db_obj)
                /\ plain' = Append(plain, password)
                /\ last' = [op |-> "create_user", email |-> email,
                            password |-> password, result |-> "ok",
                            id |-> Len(users) + 1,
                            set_superuser |-> is_superuser,
                            set_disabled |-> disabled,
                            ret |-> Some(db_obj)]
    /\ UNCHANGED << items, nextItemId, clock, tz, token, issued, access >>

\* create_user with the password drawn from pws and the salt from salts.
CreateUserWith(pws, salts) ==
    \E email \in Emails, password \in pws,
       is_superuser \in Opt(BOOLEAN), disabled \in Opt({TRUE}),
       salt \in salts :
        CreateUserStep(email, password, is_superuser, disabled, salt)

CreateUser == CreateUserWith(Passwords, Salts)

\* A UserUpdate request: each field is None when it was not set (dropped by
\* model_dump(exclude_unset=True)) and Some(value) when it was.
UserUpdates ==
    [email : Opt(Emails), password : Opt(Passwords),
     is_active : Opt(BOOLEAN), is_superuser : Opt(BOOLEAN)]

\* update_user without lines 57-60: the password of the request is dropped
\* with the other non-columns and the stored hash is kept.
update_user_KeepsHash(db_user, user_in, salt) ==
    [id |-> db_user.id,
     email |-> IF user_in.email # None
               THEN user_in.email[1] ELSE db_user.email,
     hashed_password |-> db_user.hashed_password,
     is_active |-> IF user_in.is_active # None
                   THEN user_in.is_active[1] ELSE db_user.is_active,
     is_superuser |-> IF user_in.is_superuser # None
                      THEN user_in.is_superuser[1] ELSE db_user.is_superuser]

\* db_user.sqlmodel_update(user_data, update=extra_data): every key of
\* user_data or extra_data that is a column of User is assigned; "password"
\* is no column and is dropped, "hashed_password" comes from extra_data.
update_user(db_user, user_in, salt) ==
    [id |-> db_user.id,
     email |-> IF user_in.email # None
               THEN user_in.email[1] ELSE db_user.email,
     hashed_password |->
               IF user_in.password # None
               THEN get_password_hash(user_in.password[1], salt)
               ELSE db_user.hashed_password,
     is_active |-> IF user_in.is_active # None
                   THEN user_in.is_active[1] ELSE db_user.is_active,
     is_superuser |-> IF user_in.is_superuser # None
                      THEN user_in.is_superuser[1] ELSE db_user.is_superuser]

UpdateUser ==
    \E id \in DOMAIN users, user_in \in UserUpdates, salt \in Salts :
        /\ LET new == update_user(users[id], user_in, salt)
           IN  IF EmailTaken(users, new.email, id)
               THEN /\ UNCHANGED << users, plain >>
                    /\ last' = [op |-> "update_user", id |-> id,
                                set_email |-> user_in.email,
                                set_password |-> user_in.password,
                                result |-> "IntegrityError"]
               ELSE /\ users' = [users EXCEPT ![id] = new]
                    /\ plain' = IF user_in.password # None
                                THEN [plain EXCEPT ![id] = user_in.password[1]]
                                ELSE plain
                    /\ last' = [op |-> "update_user", id |-> id,
                                set_email |-> user_in.email,
                                set_password |-> user_in.password,
                                result |-> "ok"]
        /\ UNCHANGED << items, nextItemId, clock, tz, token, issued, access >>

Authenticate ==
    \E email \in Emails, password \in Passwords :
        /\ last' = [op |-> "authenticate", email |-> email,
                    password |-> password,
                    out |-> authenticate(users, email, password)]
        /\ UNCHANGED << users, plain, items, nextItemId, clock, tz, token, issued, access >>

\* ------------------------------------------------------ app/api/routes/items
\* The outcome of a handler: the HTTP status (200, or the status_code of the
\* HTTPException raised), the rows returned and the item table afterwards.
Outcome(status, ret, its) == [status |-> status, ret |-> ret, items |-> its]

\* session.get(Item, id): the row with that primary key, or None.
get_item(its, id) ==
    IF \E it \in its : it.id = id
    THEN Some(CHOOSE it \in its : it.id = id)
    ELSE None

\* The rows of its in the order a scan of the table yields them (by id).
RECURSIVE Rows(_)
Rows(its) ==
    IF its = {} THEN << >>
    ELSE LET first == CHOOSE it \in its : \A o \in its : it.id <= o.id
         IN  << first >> \o Rows(its \ {first})

\* .offset(skip).limit(limit) applied to a result.
OffsetLimit(rows, skip, limit) ==
    SubSeq(rows, skip + 1,
           IF skip + limit < Len(rows) THEN skip + limit ELSE Len(rows))

\* read_items with the owner filter left out of both statements.
read_items_Unscoped(its, current_user, skip, limit) ==
    [data |-> OffsetLimit(Rows(its), skip, limit),
     count |-> Cardinality(its)]

read_items(its, current_user, skip, limit) ==
    IF current_user.is_superuser
    THEN [data |-> OffsetLimit(Rows(its), skip, limit),
          count |-> Cardinality(its)]
    ELSE LET own == {it \in its : it.owner_id = current_user.id}
         IN  [data |-> OffsetLimit(Rows(own), skip, limit),
              count |-> Cardinality(own)]

\* read_item answering "not found" for an item the caller may not access.
read_item_Hides(its, current_user, id) ==
    LET item == get_item(its, id)
    IN  IF item = None THEN Outcome(404, None, its)
        ELSE IF ~current_user.is_superuser
                /\ item[1].owner_id # current_user.id
             THEN Outcome(404, None, its)
             ELSE Outcome(200, item, its)

read_item(its, current_user, id) ==
    LET item == get_item(its, id)
    IN  IF item = None THEN Outcome(404, None, its)
        ELSE IF ~current_user.is_superuser
                /\ item[1].owner_id # current_user.id
             THEN Outcome(400, None, its)
             ELSE Outcome(200, item, its)

\* Item.model_validate(item_in, update={...}): the fields of item_in, then
\* the keys of update over them; an owner_id carried by the request body
\* (None when it carries none) never survives an update that sets owner_id.
model_validate(item_in, update) ==
    [title |-> item_in.title, owner_id |-> update.owner_id]

\* create_item taking the owner from the request body when it names one.
create_item_TrustsBody(its, current_user, item_in, id) ==
    LET item == [id |-> id,
                 owner_id |-> IF item_in.owner_id # None
                              THEN item_in.owner_id[1] ELSE current_user.id,
                 title |-> item_in.title]
    IN  Outcome(200, Some(item), its \cup {item})

\* The route: Item.model_validate(item_in, update={"owner_id":
\* current_user.id}), stored under the next primary key.
create_item(its, current_user, item_in, id) ==
    LET data == model_validate(item_in, [owner_id |-> current_user.id])
        item == [id |-> id, owner_id |-> data.owner_id,
                 title |-> data.title]
    IN  Outcome(200, Some(item), its \cup {item})

\* crud.create_item: Item.model_validate(item_in, update={"owner_id":
\* owner_id}); returns the stored row and the table afterwards.
crud_create_item(its, item_in, owner_id, id) ==
    LET data == model_validate(item_in, [owner_id |-> owner_id])
        item == [id |-> id, owner_id |-> data.owner_id,
                 title |-> data.title]
    IN  [ret |-> Some(item), items |-> its \cup {item}]

\* item.sqlmodel_update(update_dict): the fields of ItemUpdate that were set.
sqlmodel_update(item, item_in) ==
    [item EXCEPT !.title = IF item_in.title # None
                           THEN item_in.title[1] ELSE @]

\* update_item with the permission check forgotten.
update_item_Unguarded(its, current_user, id, item_in) ==
    LET item == get_item(its, id)
    IN  IF item = None THEN Outcome(404, None, its)
        ELSE LET new == sqlmodel_update(item[1], item_in)
             IN  Outcome(200, Some(new), (its \ {item[1]}) \cup {new})

update_item(its, current_user, id, item_in) ==
    LET item == get_item(its, id)
    IN  IF item = None THEN Outcome(404, None, its)
        ELSE IF ~current_user.is_superuser
                /\ item[1].owner_id # current_user.id
             THEN Outcome(400, None, its)
             ELSE LET new == sqlmodel_update(item[1], item_in)
                  IN  Outcome(200, Some(new), (its \ {item[1]}) \cup {new})

\* delete_item deleting and committing before it checks the permission.
delete_item_DeletesFirst(its, current_user, id) ==
    LET item == get_item(its, id)
    IN  IF item = None THEN Outcome(404, None, its)
        ELSE IF ~current_user.is_superuser
                /\ item[1].owner_id # current_user.id
             THEN Outcome(400, None, its \ {item[1]})
             ELSE Outcome(200, None, its \ {item[1]})

delete_item(its, current_user, id) ==
    LET item == get_item(its, id)
    IN  IF item = None THEN Outcome(404, None, its)
        ELSE IF ~current_user.is_superuser
                /\ item[1].owner_id # current_user.id
             THEN Outcome(400, None, its)
             ELSE Outcome(200, None, its \ {item[1]})

ItemIds == 1 .. MaxItems
\* A creation request: the title, and the owner_id its body may carry.
ItemCreates == [title : Titles, owner_id : Opt(1 .. MaxUsers)]
ItemUpdates == [title : Opt(Titles)]

\* The handlers run for current_user, the stored user the request's access
\* token names.
ReadItems ==
    \E caller \in DOMAIN users, skip \in 0 .. MaxItems, limit \in 0 .. MaxItems :
        /\ last' = [op |-> "read_items", caller |-> caller,
                    skip |-> skip, limit |-> limit,
                    out |-> read_items(items, users[caller], skip, limit)]
        /\ UNCHANGED << users, plain, items, nextItemId, clock, tz, token, issued, access >>

ReadItem ==
    \E caller \in DOMAIN users, id \in ItemIds :
        LET out == read_item(items, users[caller], id)
        IN  /\ items' = out.items
            /\ last' = [op |-> "read_item", caller |-> caller, id |-> id,
                        status |-> out.status, ret |-> out.ret]
            /\ UNCHANGED << users, plain, nextItemId, clock, tz, token, issued, access >>

CreateItem ==
    \E caller \in DOMAIN users, item_in \in ItemCreates :
        /\ nextItemId <= MaxItems
        /\ LET out == create_item(items, users[caller], item_in, nextItemId)
           IN  /\ items' = out.items
               /\ last' = [op |-> "create_item", caller |-> caller,
                           id |-> nextItemId,
                           body_owner |-> item_in.owner_id,
                           status |-> out.status, ret |-> out.ret]
        /\ nextItemId' = nextItemId + 1
        /\ UNCHANGED << users, plain, clock, tz, token, issued, access >>

\* crud.create_item called for a stored user, the creating user.
CrudCreateItem ==
    \E owner_id \in DOMAIN users, item_in \in ItemCreates :
        /\ nextItemId <= MaxItems
        /\ LET out == crud_create_item(items, item_in, owner_id, nextItemId)
           IN  /\ items' = out.items
               /\ last' = [op |-> "crud_create_item", caller |-> owner_id,
                           id |-> nextItemId,
                           body_owner |-> item_in.owner_id,
                           ret |-> out.ret]
        /\ nextItemId' = nextItemId + 1
        /\ UNCHANGED << users, plain, clock, tz, token, issued, access >>

UpdateItem ==
    \E caller \in DOMAIN users, id \in ItemIds, item_in \in ItemUpdates :
        LET out == update_item(items, users[caller], id, item_in)
        IN  /\ items' = out.items
            /\ last' = [op |-> "update_item", caller |-> caller, id |-> id,
                        status |-> out.status, ret |-> out.ret]
            /\ UNCHANGED << users, plain, nextItemId, clock, tz, token, issued, access >>

DeleteItem ==
    \E caller \in DOMAIN users, id \in ItemIds :
        LET out == delete_item(items, users[caller], id)
        IN  /\ items' = out.items
            /\ last' = [op |-> "delete_item", caller |-> caller, id |-> id,
                        status |-> out.status, ret |-> out.ret]
            /\ UNCHANGED << users, plain, nextItemId, clock, tz, token, issued, access >>

\* ---------------------------------------------------------------- app/utils
\* Instants are whole hours. A naive datetime is the wall-clock reading it
\* holds; datetime.utcnow() is the UTC reading of the true instant.
utcnow(now) == now

\* naive.timestamp(): a naive datetime is read as local time, so the epoch
\* value is the reading minus the local UTC offset.
timestamp(naive, offset) == naive - offset

\* timegm(naive.utctimetuple()), which jwt.encode applies to a datetime in
\* exp, iat or nbf and jwt.decode to utcnow(): the reading taken as UTC.
timegm(naive) == naive

\* A signed token: its claims (exp always present here, nbf and sub
\* optional), the key of its signature, whether the signature still matches
\* the header and claims, and whether the text is three base64url segments
\* holding JSON at all.
Token(sub, exp, nbf, key, intact, wellformed) ==
    [sub |-> sub, exp |-> exp, nbf |-> nbf, key |-> key,
     intact |-> intact, wellformed |-> wellformed]

\* jwt.encode(claims, settings.SECRET_KEY, algorithm="HS256")
jwt_encode(sub, exp, nbf) == Token(sub, exp, nbf, "SECRET_KEY", TRUE, TRUE)

\* str(subject) for a user id: its decimal digit.
str(subject) ==
    << "0", "1", "2", "3", "4", "5", "6", "7", "8", "9" >>[subject + 1]

\* app/core/security.create_access_token: exp is the datetime utcnow() +
\* expires_delta, which jwt.encode converts; sub is the user id as text;
\* no nbf and nothing that names the token's purpose.
create_access_token(subject, expires_delta, now) ==
    LET expire == utcnow(now) + expires_delta
    IN  jwt_encode(Some(str(subject)), timegm(expire), None)

generate_password_reset_token(email, now, offset) ==
    LET delta == EMAIL_RESET_TOKEN_EXPIRE_HOURS
        expires == utcnow(now) + delta
        exp == timestamp(expires, offset)
    IN  jwt_encode(Some(email), exp, Some(timegm(utcnow(now))))

\* jwt.decode(token, settings.SECRET_KEY, algorithms=["HS256"]) raises a
\* JWTError when the token cannot be parsed, when the signature does not
\* verify under the key, when nbf is later than now and when exp is
\* earlier than now; otherwise it returns the claims.
jwt_decode_raises(tok, now) ==
    \/ ~tok.wellformed
    \/ tok.key # "SECRET_KEY"
    \/ ~tok.intact
    \/ (tok.nbf # None /\ tok.nbf[1] > timegm(utcnow(now)))
    \/ tok.exp < timegm(utcnow(now))

Return(value) == [kind |-> "return", value |-> value]
Raise(exception) == [kind |-> "raise", value |-> Some(exception)]

\* What a call of verify_password_reset_token does: return a value, or let
\* an exception escape. decoded_token["sub"] raises KeyError, which is no
\* JWTError, when the claims carry no sub.
verify_password_reset_token(tok, now) ==
    IF jwt_decode_raises(tok, now) THEN Return(None)
    ELSE IF tok.sub = None THEN Raise("KeyError")
    ELSE Return(tok.sub)

\* Time passes.
Tick ==
    /\ clock < MaxClock
    /\ clock' = clock + 1
    /\ last' = [op |-> "tick"]
    /\ UNCHANGED << users, plain, items, nextItemId, tz, token, issued, access >>

GenerateResetToken ==
    \E email \in Emails :
        LET tok == generate_password_reset_token(email, clock, tz)
        IN  /\ token' = Some(tok)
            /\ issued' = Some([token |-> tok, email |-> email, at |-> clock])
            /\ access' = None
            /\ last' = [op |-> "generate_password_reset_token"]
            /\ UNCHANGED << users, plain, items, nextItemId, clock, tz >>

\* The lifetimes create_access_token is called with, in hours.
AccessTokenLifetimes == {1, MaxClock}

\* A login hands out an access token for a user id.
CreateAccessToken ==
    \E subject \in 1 .. MaxUsers, expires_delta \in AccessTokenLifetimes :
        LET tok == create_access_token(subject, expires_delta, clock)
        IN  /\ token' = Some(tok)
            /\ issued' = None
            /\ access' = Some([token |-> tok, subject |-> subject,
                               at |-> clock])
            /\ last' = [op |-> "create_access_token"]
            /\ UNCHANGED << users, plain, items, nextItemId, clock, tz >>

\* The bearer of the issued token changes a byte of its signature.
Tamper ==
    /\ token # None
    /\ token[1].intact
    /\ token' = Some([token[1] EXCEPT !.intact = FALSE])
    /\ last' = [op |-> "tamper"]
    /\ UNCHANGED << users, plain, items, nextItemId, clock, tz, issued, access >>

\* Any text can be presented as a token: signed with the secret or another
\* key, with any exp, with or without nbf and sub, or no token at all.
PresentedTokens ==
    { Token(sub, exp, nbf, key, TRUE, wellformed) :
        sub \in Opt(Emails),
        exp \in 0 .. MaxClock,
        nbf \in Opt(0 .. MaxClock),
        key \in {"SECRET_KEY", "other"},
        wellformed \in BOOLEAN }

Present ==
    \E tok \in PresentedTokens :
        /\ token' = Some(tok)
        /\ issued' = None
        /\ access' = None
        /\ last' = [op |-> "present"]
        /\ UNCHANGED << users, plain, items, nextItemId, clock, tz >>

VerifyResetToken ==
    /\ token # None
    /\ last' = [op |-> "verify_password_reset_token",
                out |-> verify_password_reset_token(token[1], clock)]
    /\ UNCHANGED << users, plain, items, nextItemId, clock, tz, token,
                    issued, access >>

\* ---------------------------------------------------------- specification
\* The state after start-up, in a process whose local UTC offset is z.
Boot(z) ==
    /\ users = << >>
    /\ plain = << >>
    /\ items = {}
    /\ nextItemId = 1
    /\ clock = 0
    /\ tz = z
    /\ token = None
    /\ issued = None
    /\ access = None
    /\ last = [op |-> "init"]

Init == \E z \in TzOffsets : Boot(z)

NextUser == CreateUser \/ UpdateUser \/ Authenticate

\* The user store and the authenticator, in a process running in UTC.
SpecUser == Boot(0) /\ [][NextUser]_vars

NextItem ==
    \/ CreateUserWith({"Secret123"}, {"s1"})
    \/ CreateItem
    \/ CrudCreateItem
    \/ ReadItems
    \/ ReadItem
    \/ UpdateItem
    \/ DeleteItem

\* The item routes, called by registered users.
SpecItem == Boot(0) /\ [][NextItem]_vars

NextToken ==
    \/ Tick
    \/ GenerateResetToken
    \/ CreateAccessToken
    \/ Tamper
    \/ Present
    \/ VerifyResetToken

\* Password-reset tokens, in a process of any local UTC offset.
SpecToken == Init /\ [][NextToken]_vars

Next == NextUser \/ NextItem \/ NextToken

Spec == Init /\ [][Next]_vars

\* ------------------------------------------------------------------ claims
\* The rows of us whose e-mail is not email.
WithoutEmail(us, email) ==
    LET Other(u) == u.email # email IN SelectSeq(us, Other)

\* C1: authenticate(email, password) returns the stored user with that
\* e-mail when password is the password that user chose last (at creation
\* or by a later update_user), None when the user chose another password,
\* and None when no stored user has the e-mail.
C1_Authenticate ==
    last.op = "authenticate" =>
        LET known == {i \in DOMAIN users : users[i].email = last.email}
        IN  /\ \A i \in known :
                 IF plain[i] = last.password
                 THEN /\ last.out.ret = Some(users[i])
                      /\ last.out.ret[1].email = last.email
                 ELSE last.out.ret = None
            /\ known = {} => last.out.ret = None

\* C1 witness: the second registered user logs in, and the other e-mail
\* belongs to the first user.
C1_Witness ==
    /\ last.op = "authenticate"
    /\ Len(users) = 2
    /\ last.out.ret = Some(users[2])

\* C6: a failed authenticate looks the same whether or not the e-mail is
\* stored: the same value (None) and the same work (verify_password run or
\* not) as the same call against the table without that e-mail.
C6_SameFailure ==
    (last.op = "authenticate" /\ last.out.ret = None) =>
        last.out = authenticate(WithoutEmail(users, last.email),
                                last.email, last.password)

\* C10 as stated: after update_user with a password, the stored hash
\* verifies the new password and none that verified before, authenticate
\* follows, e-mail and id are unchanged; without a password the hash is
\* unchanged.
C10_Original ==
    [][(last'.op = "update_user" /\ last'.result = "ok") =>
        LET before == users[last'.id]
            after == users'[last'.id]
        IN  /\ last'.set_password # None =>
                LET p_new == last'.set_password[1]
                IN  /\ verify_password(p_new, after.hashed_password)
                    /\ authenticate(users', after.email, p_new).ret
                           = Some(after)
                    /\ \A p \in Passwords :
                         verify_password(p, before.hashed_password) =>
                           /\ ~verify_password(p, after.hashed_password)
                           /\ authenticate(users', after.email, p).ret = None
                    /\ after.email = before.email
                    /\ after.id = before.id
            /\ last'.set_password = None =>
                after.hashed_password = before.hashed_password]_vars

\* C10 amended: after update_user with a password p_new the stored hash
\* verifies p_new and no other password (so not the previous one when it
\* differs from p_new), authenticate with the user's e-mail returns the
\* user for p_new and None for every other password, the id is unchanged
\* and the e-mail is unchanged unless the request carries an e-mail;
\* without a password the hash is unchanged.
C10_UpdatePassword ==
    [][(last'.op = "update_user" /\ last'.result = "ok") =>
        LET before == users[last'.id]
            after == users'[last'.id]
        IN  /\ last'.set_password # None =>
                LET p_new == last'.set_password[1]
                IN  /\ verify_password(p_new, after.hashed_password)
                    /\ authenticate(users', after.email, p_new).ret
                           = Some(after)
                    /\ \A p \in Passwords \ {p_new} :
                           /\ ~verify_password(p, after.hashed_password)
                           /\ authenticate(users', after.email, p).ret = None
                    /\ after.id = before.id
                    /\ last'.set_email = None => after.email = before.email
            /\ last'.set_password = None =>
                after.hashed_password = before.hashed_password]_vars

\* C10 witness: update_user has just replaced the password, and nothing
\* else that identifies the user, of one of two stored users.
C10_Witness ==
    /\ last.op = "update_user"
    /\ last.result = "ok"
    /\ last.set_password # None
    /\ Len(users) = 2
    /\ last.set_email = None
    /\ verify_password(last.set_password[1],
                       users[last.id].hashed_password)
\* The calls that address one item by id.
ById == {"read_item", "update_item", "delete_item"}

\* C2: read_item, update_item and delete_item on an existing item succeed
\* exactly when the caller is a superuser or owns the item, and for the same
\* caller and item the three handlers give the same allow/deny answer.
C2_OwnerOrSuperuser ==
    [][last'.op \in ById =>
        LET current_user == users[last'.caller]
        IN  \A it \in items : it.id = last'.id =>
              /\ (last'.status = 200) <=>
                     (current_user.is_superuser
                        \/ it.owner_id = current_user.id)
              /\ \A item_in \in ItemUpdates :
                   LET r == read_item(items, current_user, it.id).status
                       u == update_item(items, current_user, it.id,
                                        item_in).status
                       d == delete_item(items, current_user, it.id).status
                   IN  r = u /\ u = d /\ last'.status = r]_vars

\* C2 witness: a non-superuser has just updated an item of their own while
\* an item of another user is stored.
C2_Witness ==
    /\ last.op = "update_item"
    /\ last.status = 200
    /\ ~users[last.caller].is_superuser
    /\ \E it \in items : it.owner_id # last.caller

\* C3: what read_items returns to a non-superuser are stored items owned by
\* the caller, each at most once and at most limit of them (all of them
\* when skip is 0 and limit is large enough), and its count is the number
\* of stored items the caller owns, for every skip and limit.
C3_ListingIsolation ==
    (last.op = "read_items" /\ ~users[last.caller].is_superuser) =>
        LET own == {it \in items : it.owner_id = last.caller}
            data == last.out.data
        IN  /\ \A i \in DOMAIN data : data[i] \in own
            /\ \A i, j \in DOMAIN data : data[i] = data[j] => i = j
            /\ last.out.count = Cardinality(own)
            /\ Len(data) <= last.limit
            /\ (last.skip = 0 /\ last.limit >= Cardinality(own)) =>
                  {data[i] : i \in DOMAIN data} = own

\* C3 witness: a non-superuser who owns one item lists it while another
\* user's item is stored.
C3_Witness ==
    /\ last.op = "read_items"
    /\ ~users[last.caller].is_superuser
    /\ last.out.count = 1
    /\ Len(last.out.data) = 1
    /\ \E it \in items : it.owner_id # last.caller

\* C4: an update_item or delete_item that fails (400: not owner and not
\* superuser; 404: no such item) leaves the item table as it was.
C4_FailureChangesNothing ==
    [][(last'.op \in {"update_item", "delete_item"} /\ last'.status # 200)
          => items' = items]_vars

\* C4 witness: delete_item was denied to a non-owner and the item is still
\* stored.
C4_Witness ==
    /\ last.op = "delete_item"
    /\ last.status = 400
    /\ \E it \in items : it.id = last.id /\ it.owner_id # last.caller

\* C5: in read_item, update_item and delete_item the status is 404 exactly
\* when no item has the id, and 400 exactly when the item exists and the
\* caller is neither a superuser nor its owner.
C5_NotFoundVsNotAuthorized ==
    [][last'.op \in ById =>
        LET current_user == users[last'.caller]
            exists == \E it \in items : it.id = last'.id
        IN  /\ (last'.status = 404) <=> ~exists
            /\ (last'.status = 400) <=>
                  \E it \in items :
                      /\ it.id = last'.id
                      /\ ~current_user.is_superuser
                      /\ it.owner_id # current_user.id]_vars

\* C5 witness: a non-superuser reads an id that no stored item has, while
\* an item of another user is stored.
C5_Witness ==
    /\ last.op = "read_item"
    /\ last.status = 404
    /\ ~users[last.caller].is_superuser
    /\ \E it \in items : it.owner_id # last.caller
\* The token under verification is the one generate_password_reset_token
\* issued, unchanged since.
AsIssued ==
    /\ last.op = "verify_password_reset_token"
    /\ issued # None
    /\ token = Some(issued[1].token)

\* C7: a token issued for e at t0 makes verify_password_reset_token return
\* e at t0 and at every later instant up to t0 +
\* EMAIL_RESET_TOKEN_EXPIRE_HOURS, whatever the local UTC offset.
C7_ValidUntilExpiry ==
    (AsIssued /\ issued[1].at <= clock
              /\ clock <= issued[1].at + EMAIL_RESET_TOKEN_EXPIRE_HOURS)
        => last.out = Return(Some(issued[1].email))

\* C8: a token issued at t0 is rejected at every instant later than t0 +
\* EMAIL_RESET_TOKEN_EXPIRE_HOURS, whatever the local UTC offset, and its
\* exp is the instant of issuance plus the configured hours.
C8_RejectedAfterExpiry ==
    /\ (AsIssued /\ clock > issued[1].at + EMAIL_RESET_TOKEN_EXPIRE_HOURS)
          => last.out = Return(None)
    /\ issued # None =>
          issued[1].token.exp
              = issued[1].at + EMAIL_RESET_TOKEN_EXPIRE_HOURS

\* C9: verify_password_reset_token never lets an exception escape, and it
\* returns None for every token that is malformed, tampered with, signed
\* with another key, expired, not yet valid or without a sub claim.
C9_NoneNeverRaises ==
    last.op = "verify_password_reset_token" =>
        /\ last.out.kind = "return"
        /\ (\/ jwt_decode_raises(token[1], clock)
            \/ token[1].sub = None) => last.out = Return(None)
C12_OwnerFixed ==
    [][/\ \A it \in items' : it.owner_id \in DOMAIN users'
       /\ \A a, b \in items' : a.id = b.id => a = b
       /\ \A a \in items, b \in items' :
              a.id = b.id => b.owner_id = a.owner_id
       /\ last'.op \in {"create_item", "crud_create_item"} =>
              \E it \in items' \ items :
                  /\ it.id = last'.id
                  /\ it.owner_id = last'.caller
                  /\ last'.ret = Some(it)]_vars

\* C12 witness: a superuser has just updated an item of another user, and
\* the item is still that user's.
C12_Witness ==
    /\ last.op = "update_item"
    /\ last.status = 200
    /\ users[last.caller].is_superuser
    /\ \E it \in items : it.id = last.id /\ it.owner_id # last.caller
\* The user table with every user active.
Activated(us) == [i \in DOMAIN us |-> [us[i] EXCEPT !.is_active = TRUE]]

\* C13: authenticate does not consult is_active: with the e-mail and the
\* current password of a stored user whose is_active is false it returns
\* that user, and every call returns a user exactly when the same call
\* against the table with all users active does.
C13_InactiveCanLogIn ==
    last.op = "authenticate" =>
        /\ \A i \in DOMAIN users :
              (/\ ~users[i].is_active
               /\ users[i].email = last.email
               /\ plain[i] = last.password) => last.out.ret = Some(users[i])
        /\ LET active == authenticate(Activated(users), last.email,
                                      last.password)
           IN  /\ (last.out.ret = None) <=> (active.ret = None)
               /\ last.out.ret # None =>
                     last.out.ret[1].id = active.ret[1].id

\* C13 witness: a user deactivated through update_user has just been
\* authenticated.
C13_Witness ==
    /\ last.op = "authenticate"
    /\ last.out.ret # None
    /\ ~last.out.ret[1].is_active
\* C14: verify_password_reset_token does not accept an access token: for a
\* token issued by create_access_token and unchanged since it returns
\* None, also while the token is unexpired, so that a subject is returned
\* only for tokens issued by generate_password_reset_token.
C14_AccessTokenRejected ==
    (/\ last.op = "verify_password_reset_token"
     /\ access # None
     /\ token = Some(access[1].token)) => last.out = Return(None)
====
